---- MODULE Spec2Model ----
(***************************************************************************)
(* Model of the slot-based HTTP request multiplexer of http2.c: the slot   *)
(* list (get_slot), the registration of a slot's easy handle with the curl *)
(* multi handle (start_slot), the completion dispatcher                    *)
(* (process_curl_messages), the idle-handle reclaimer (cleanup_slots), the *)
(* progress step (step_slots) and the blocking loop of http_request        *)
(* (run_slot); the setup of http_init; and the callbacks http_request      *)
(* installs on a handle: the header capture (fwrite_headers) and the       *)
(* reader of a strbuf body (fread_strbuf).                                 *)
(***************************************************************************)
EXTENDS Integers, Sequences, FiniteSets, TLC

\* Bounds of the model.
MaxSlots == 4      \* slot records (and easy handle addresses) ever allocated
MaxCalls == 5      \* calls of http_request
MaxLiveCalls == 3  \* calls of http_request in the behaviours of FairSpec
                   \* and of SetupSpec
MaxLines == 4      \* header lines delivered to one strvec
MaxBody == 4       \* bytes in the strbuf of a request body
MaxItems == 3       \* nmemb of one call of the read callback
MaxTimeout == 1100  \* milliseconds curl_multi_timeout suggests at most

\* Program constants.
NULL == 0
CURLE_OK == 0
CURLE_COULDNT_CONNECT == 7
HTTP_START_FAILED == 3
min_curl_sessions == 1

\* Stands for "no value yet": differs from every result code and from
\* HTTP_START_FAILED.
NoReturn == 0 - 1
CURLcodes == {CURLE_OK, CURLE_COULDNT_CONNECT}
Handles == 1..MaxSlots
Calls == 1..MaxCalls

VARIABLES
    slots,               \* the slot records ever allocated, by address 1..Len
    queue_head,          \* first slot of the list, NULL when empty
    curl_session_count,  \* number of CURL handles created
    active_requests,     \* number of active slots
    live,                \* easy handles duplicated and not yet cleaned up
    added,               \* easy handles added to the multi handle
    running,             \* added handles whose transfer is still running
    msgs,                \* completion messages curl_multi_info_read will return
    responses,           \* curl_result of the http_response of each call
    pc,                  \* "idle": no call in progress; "run": inside run_slot
    cur,                 \* slot of the call in progress (or of the last call)
    ncalls,              \* number of http_request calls made so far
    ret,                 \* value returned by the last call that returned
    xfer,                \* history: the call that added each easy handle
    matched,             \* history: per call, drain matches of its transfer
    notified,            \* history: per call, the result its DONE message carried
    stepped,             \* history: curl_multi_perform ran during this call
    active_at_call,      \* history: active_requests when the call began
    last,                \* history: the operation that produced this state:
                         \* "start_failed", "started", "returned", "step" (no
                         \* drain), "step_drained" (drain and cleanup ran, no
                         \* slot finished), "step_completed" (drain finished
                         \* at least one slot, then cleanup ran)
    curl_default,        \* the template easy handle, NULL before http_init
    curlm,               \* the multi handle, NULL when there is none
    died,                \* die() was called: the process has exited
    values,              \* the strvec fwrite_headers captures into
    hdr_bug,             \* fwrite_headers reached BUG(): the process aborted
    hdr_lines,           \* history: the lines fwrite_headers was called with
    buf,                 \* the strbuf fread_strbuf reads from
    buf_initial,         \* history: that strbuf before the first read
    delivered,           \* history: the bytes fread_strbuf copied out so far
    last_read,           \* history: the size asked of the last fread_strbuf
                         \* and what it returned
    selected,            \* one pass of run_slot's loop after step_slots:
                         \* what it finds (in_use, curl_timeout, max_fd),
                         \* whether it has run (called), whether it called
                         \* select (blocked) and with which timeout
    curl_opts,           \* the options set on the easy handle of one slot
    heap,                \* the curl_slist lists allocated, by address 1..Len
    req,                 \* the http_request of the last call on that slot
    res,                 \* the http_response of the last call on that slot
    nbuilt,              \* calls of http_request that set up this handle
    build_bug            \* http_request reached BUG(): the process aborted

muxvars == <<slots, queue_head, curl_session_count, active_requests, live,
             added, running, msgs, responses, pc, cur, ncalls, ret, xfer,
             matched, notified, stepped, active_at_call, last>>
setupvars == <<curl_default, curlm, died>>
hdrvars == <<values, hdr_bug, hdr_lines>>
bodyvars == <<buf, buf_initial, delivered, last_read>>
waitvars == <<selected>>
buildvars == <<curl_opts, heap, req, res, nbuilt, build_bug>>

vars == <<muxvars, setupvars, hdrvars, bodyvars, waitvars, buildvars>>

\* The heap and engine state the static functions of http2.c work on.
Snap ==
    [slots |-> slots, queue_head |-> queue_head,
     curl_session_count |-> curl_session_count,
     active_requests |-> active_requests, live |-> live, added |-> added,
     running |-> running, msgs |-> msgs, responses |-> responses,
     xfer |-> xfer, matched |-> matched, notified |-> notified,
     stepped |-> stepped]

Commit(st) ==
    /\ slots' = st.slots
    /\ queue_head' = st.queue_head
    /\ curl_session_count' = st.curl_session_count
    /\ active_requests' = st.active_requests
    /\ live' = st.live
    /\ added' = st.added
    /\ running' = st.running
    /\ msgs' = st.msgs
    /\ responses' = st.responses
    /\ xfer' = st.xfer
    /\ matched' = st.matched
    /\ notified' = st.notified
    /\ stepped' = st.stepped

----------------------------------------------------------------------------
\* Walks of the singly linked slot list.

\* get_slot: while (slot != NULL && slot->in_use) slot = slot->next;
RECURSIVE FirstIdle(_, _)
FirstIdle(sl, s) ==
    IF s = NULL THEN NULL
    ELSE IF sl[s].in_use = 0 THEN s
    ELSE FirstIdle(sl, sl[s].next)

\* get_slot: while (slot->next != NULL) slot = slot->next;
RECURSIVE LastSlot(_, _)
LastSlot(sl, s) ==
    IF sl[s].next = NULL THEN s ELSE LastSlot(sl, sl[s].next)

\* process_curl_messages: while (slot != NULL && slot->curl != easy_handle)
RECURSIVE FindByHandle(_, _, _)
FindByHandle(sl, s, h) ==
    IF s = NULL THEN NULL
    ELSE IF sl[s].curl = h THEN s
    ELSE FindByHandle(sl, sl[s].next, h)

\* The slots reachable from s through next, in list order.
RECURSIVE ListFrom(_, _)
ListFrom(sl, s) ==
    IF s = NULL THEN <<>> ELSE <<s>> \o ListFrom(sl, sl[s].next)

Pool == {ListFrom(slots, queue_head)[i] :
            i \in 1..Len(ListFrom(slots, queue_head))}

----------------------------------------------------------------------------
\* get_slot.  fin is the content of the finished bit of a record fresh from
\* xmalloc (never written by get_slot); h is the pointer curl_easy_duphandle
\* returns when it is called.

NeedsNewSlot(st) == FirstIdle(st.slots, st.queue_head) = NULL

NewSlotRecord(fin) ==
    [in_use |-> 0, finished |-> fin, curl |-> NULL, curl_result |-> CURLE_OK,
     response |-> NULL, next |-> NULL]

\* Lines 40-55: allocate a record and link it at the tail of the list.
AppendSlot(st, fin) ==
    LET n == Len(st.slots) + 1
        sl == Append(st.slots, NewSlotRecord(fin))
    IN  IF st.queue_head = NULL
        THEN [st EXCEPT !.slots = sl, !.queue_head = n]
        ELSE [st EXCEPT !.slots =
                  [sl EXCEPT ![LastSlot(st.slots, st.queue_head)].next = n]]

\* EnsureHandle with the template handle itself (address 1) stored in the
\* slot instead of a duplicate of it.
EnsureHandle_Shared(st, slot, h) ==
    IF st.slots[slot].curl = NULL
    THEN [st EXCEPT !.slots[slot].curl = 1,
                    !.live = @ \cup {1},
                    !.curl_session_count = @ + 1]
    ELSE st

\* EnsureHandle counting a session also when the slot keeps its handle.
EnsureHandle_CountsReuse(st, slot, h) ==
    IF st.slots[slot].curl = NULL
    THEN [st EXCEPT !.slots[slot].curl = h,
                    !.live = @ \cup {h},
                    !.curl_session_count = @ + 1]
    ELSE [st EXCEPT !.curl_session_count = @ + 1]

\* Lines 57-61: give the slot a handle duplicated from curl_default; h is
\* NULL when curl_easy_duphandle fails.
EnsureHandle(st, slot, h) ==
    IF st.slots[slot].curl = NULL
    THEN [st EXCEPT !.slots[slot].curl = h,
                    !.live = @ \cup ({h} \ {NULL}),
                    !.curl_session_count = @ + 1]
    ELSE st

\* Lines 63-68: the bookkeeping written on the slot that is handed out.
MarkInUse(st, slot) ==
    [st EXCEPT !.active_requests = @ + 1,
               !.slots[slot].in_use = 1,
               !.slots[slot].next = NULL,
               !.slots[slot].curl_result = CURLE_OK]

SlotChosen(st) ==
    IF NeedsNewSlot(st) THEN Len(st.slots) + 1
    ELSE FirstIdle(st.slots, st.queue_head)

get_slot(st, fin, h) ==
    LET slot == SlotChosen(st)
        st1 == IF NeedsNewSlot(st) THEN AppendSlot(st, fin) ELSE st
    IN  MarkInUse(EnsureHandle(st1, slot, h), slot)

----------------------------------------------------------------------------
\* The curl multi handle.

\* Every order in which the transfers of the handles in S can finish, each
\* with a transfer result code.
RECURSIVE Orders(_)
Orders(S) ==
    IF S = {} THEN {<<>>}
    ELSE UNION {{<<[easy_handle |-> h, result |-> r]>> \o q :
                    q \in Orders(S \ {h}), r \in CURLcodes} : h \in S}

\* What one round of curl_multi_perform calls can finish among R.
Completions(R) == UNION {Orders(S) : S \in SUBSET R}

HandlesOf(d) == {d[i].easy_handle : i \in 1..Len(d)}

\* curl_multi_perform: the transfers of d finish; each leaves a DONE message.
curl_multi_perform(st, d) ==
    [st EXCEPT !.running = @ \ HandlesOf(d), !.msgs = @ \o d,
               !.stepped = TRUE]

\* The running-transfer count curl_multi_perform reports.
num_transfers(st) == Cardinality(st.running)

\* curl_multi_add_handle succeeds only for a handle that is not yet added.
CanAdd(st, h) == h # NULL /\ h \notin st.added

----------------------------------------------------------------------------
\* start_slot.  addok: curl_multi_add_handle did not fail for want of
\* resources; c: the call, d: what the first curl_multi_perform finishes.

\* StartFailed without the decrement of active_requests.
StartFailed_NoDecrement(st, slot) ==
    [st EXCEPT !.slots[slot].in_use = 0]

\* StartFailed without the release of the slot.
StartFailed_KeepsInUse(st, slot) ==
    [st EXCEPT !.active_requests = @ - 1]

StartFailed(st, slot) ==
    [st EXCEPT !.active_requests = @ - 1, !.slots[slot].in_use = 0]

StartOk(st, slot, c, d) ==
    LET h == st.slots[slot].curl
    IN  curl_multi_perform(
            [st EXCEPT !.added = @ \cup {h}, !.running = @ \cup {h},
                       !.xfer[h] = c], d)

----------------------------------------------------------------------------
\* process_curl_messages: pop every message; a DONE message whose handle is
\* found in the list finishes that slot.

\* FinishSlot without update_response.
FinishSlot_SkipsResponse(st, slot, m) ==
    [st EXCEPT !.added = @ \ {st.slots[slot].curl},
               !.slots[slot].curl_result = m.result,
               !.active_requests = @ - 1,
               !.slots[slot].in_use = 0,
               !.slots[slot].finished = 1,
               !.matched[st.xfer[m.easy_handle]] = @ + 1]

FinishSlot(st, slot, m) ==
    [st EXCEPT !.added = @ \ {st.slots[slot].curl},
               !.slots[slot].curl_result = m.result,
               !.responses[st.slots[slot].response] = m.result,
               !.active_requests = @ - 1,
               !.slots[slot].in_use = 0,
               !.slots[slot].finished = 1,
               !.matched[st.xfer[m.easy_handle]] = @ + 1]

\* UnknownRequest counting the unknown transfer as a finished request.
UnknownRequest_Decrements(st, m) ==
    [st EXCEPT !.active_requests = @ - 1]

\* Line 151: the message is reported and dropped.
UnknownRequest(st, m) == st

\* process_curl_messages reading one message instead of looping.
process_curl_messages_Once(st) ==
    IF st.msgs = <<>> THEN st
    ELSE LET m == Head(st.msgs)
             slot == FindByHandle(st.slots, st.queue_head, m.easy_handle)
             rest == [st EXCEPT !.msgs = Tail(@),
                                !.notified[st.xfer[m.easy_handle]] = m.result]
         IN  IF slot # NULL THEN FinishSlot(rest, slot, m)
             ELSE UnknownRequest(rest, m)

RECURSIVE process_curl_messages(_)
process_curl_messages(st) ==
    IF st.msgs = <<>> THEN st
    ELSE LET m == Head(st.msgs)
             slot == FindByHandle(st.slots, st.queue_head, m.easy_handle)
             rest == [st EXCEPT !.msgs = Tail(@),
                                !.notified[st.xfer[m.easy_handle]] = m.result]
         IN  process_curl_messages(
                 IF slot # NULL THEN FinishSlot(rest, slot, m)
                 ELSE UnknownRequest(rest, m))

----------------------------------------------------------------------------
\* cleanup_slots.

\* ShouldCleanup with >= for >.
ShouldCleanup_AtFloor(s, count) ==
    s.in_use = 0 /\ s.curl # NULL /\ count >= min_curl_sessions

\* ShouldCleanup without the test of in_use.
ShouldCleanup_IgnoresInUse(s, count) ==
    s.curl # NULL /\ count > min_curl_sessions

\* Lines 167-168: the condition under which a slot's handle is destroyed.
ShouldCleanup(s, count) ==
    s.in_use = 0 /\ s.curl # NULL /\ count > min_curl_sessions

RECURSIVE CleanupFrom(_, _)
CleanupFrom(st, slot) ==
    IF slot = NULL THEN st
    ELSE LET s == st.slots[slot]
             st1 == IF ShouldCleanup(s, st.curl_session_count)
                    THEN [st EXCEPT !.live = @ \ {s.curl},
                                    !.slots[slot].curl = NULL,
                                    !.curl_session_count = @ - 1]
                    ELSE st
         IN  CleanupFrom(st1, s.next)

cleanup_slots(st) == CleanupFrom(st, st.queue_head)

----------------------------------------------------------------------------
\* step_slots.

\* ShouldDrain with the comparison off by one.
ShouldDrain_OffByOne(st) == num_transfers(st) < st.active_requests - 1

\* Line 189: fewer running transfers than active slots.
ShouldDrain(st) == num_transfers(st) < st.active_requests

\* step_slots calling cleanup_slots before process_curl_messages.
step_slots_CleanupFirst(st, d) ==
    LET st1 == curl_multi_perform(st, d)
    IN  IF ShouldDrain(st1) THEN process_curl_messages(cleanup_slots(st1))
        ELSE st1

step_slots(st, d) ==
    LET st1 == curl_multi_perform(st, d)
    IN  IF ShouldDrain(st1) THEN cleanup_slots(process_curl_messages(st1))
        ELSE st1

----------------------------------------------------------------------------
\* The statics of lines 9-28 at program start: no slot, no handle, nothing
\* added to a multi handle.

MuxInit ==
    /\ slots = <<>>
    /\ queue_head = NULL
    /\ curl_session_count = 0
    /\ active_requests = 0
    /\ live = {}
    /\ added = {}
    /\ running = {}
    /\ msgs = <<>>
    /\ responses = [c \in Calls |-> CURLE_OK]
    /\ pc = "idle"
    /\ cur = NULL
    /\ ncalls = 0
    /\ ret = NoReturn
    /\ xfer = [h \in Handles |-> 0]
    /\ matched = [c \in Calls |-> 0]
    /\ notified = [c \in Calls |-> NoReturn]
    /\ stepped = FALSE
    /\ active_at_call = 0
    /\ last = "init"

\* A pointer to an object curl_easy_init or curl_multi_init allocated.
Allocated == 1

\* No header line delivered yet: the caller's strvec is empty.
HdrIdle ==
    /\ values = <<>>
    /\ hdr_bug = FALSE
    /\ hdr_lines = <<>>

\* No strbuf body in use.
BodyIdle ==
    /\ buf = <<>>
    /\ buf_initial = <<>>
    /\ delivered = <<>>
    /\ last_read = [size |-> 0, ret |-> NoReturn]

\* No pass of run_slot's loop is being followed.
WaitIdle ==
    selected = [in_use |-> 0, curl_timeout |-> 0, max_fd |-> 0 - 1,
                called |-> TRUE, blocked |-> FALSE, tv_sec |-> 0, tv_usec |-> 0]

\* A pointer value an option of the handle or a field of a descriptor holds:
\* the object it points to and the call of http_request whose descriptors
\* own that object (0: a function or object of the program or of libcurl).
Ptr(of, call) == [of |-> of, call |-> call]
\* An option curl_easy_setopt was never called for.
Unset == Ptr("unset", 0)
\* A NULL pointer in a descriptor.
NullPtr == Ptr("NULL", 0)
\* char *content_type when it is NULL.
NullStr == "(null)"

\* The handle curl_easy_duphandle(curl_default) returns: http_init sets no
\* option on curl_default that http_request sets.
FreshHandle ==
    [url |-> Unset, httpget |-> 0, nobody |-> 0, post |-> 0,
     httpheader |-> NULL, headerfunction |-> Unset, headerdata |-> Unset,
     readfunction |-> Unset, readdata |-> Unset,
     postfields |-> Unset, postfieldsize |-> Unset,
     writefunction |-> Unset, writedata |-> Unset]

\* The descriptors of call k of http_request.  The members of the unions
\* that data_type does not select are not part of the value.
Request(k, no_cache, method, extra_headers, data_type, content_type) ==
    [call |-> k, no_cache |-> no_cache, method |-> method,
     extra_headers |-> extra_headers, data_type |-> data_type,
     content_type |-> content_type]
Response(k, headers, data_type) ==
    [call |-> k, headers |-> headers, data_type |-> data_type]

\* No call of http_request has set up the handle yet.
BuildIdle ==
    /\ curl_opts = FreshHandle
    /\ heap = <<>>
    /\ req = Request(0, FALSE, "HTTP_GET", [null |-> TRUE, items |-> <<>>],
                     "HTTP_DATA_NONE", NullStr)
    /\ res = Response(0, NullPtr, "HTTP_DATA_NONE")
    /\ nbuilt = 0
    /\ build_bug = FALSE

\* The state after an http_init in which every allocation succeeded.
Init ==
    /\ MuxInit
    /\ curl_default = Allocated
    /\ curlm = Allocated
    /\ died = FALSE
    /\ HdrIdle
    /\ WaitIdle
    /\ BuildIdle
    /\ BodyIdle

\* The inputs of a call of http_request that get_slot and start_slot read.
CallEnabled ==
    /\ pc = "idle"
    /\ ncalls < MaxCalls
    /\ NeedsNewSlot(Snap) => Len(slots) < MaxSlots

Acquired(fin, h) ==
    LET st == get_slot(Snap, fin, h)
        slot == SlotChosen(Snap)
    IN  [st EXCEPT !.slots[slot].response = ncalls + 1, !.stepped = FALSE]

\* The pointer curl_easy_duphandle returns: an address no live handle has.
\* Handles are only ever compared for equality, so the least free address
\* stands for any of them (it is a destroyed handle's address whenever one
\* is free, which is the case where addresses are reused).
FreshHandles ==
    IF NeedsNewSlot(Snap) \/ slots[SlotChosen(Snap)].curl = NULL
    THEN {CHOOSE h \in Handles \ live : \A g \in Handles \ live : h <= g}
    ELSE {NULL}

\* http_request up to a failed start_slot: returns HTTP_START_FAILED.
HttpRequestStartFails ==
    /\ CallEnabled
    /\ \E fin \in {0, 1}, h \in FreshHandles :
          \E slot \in {SlotChosen(Snap)} :
          \E st \in {StartFailed(Acquired(fin, h), slot)} :
              /\ Commit(st)
              /\ cur' = slot
    /\ ncalls' = ncalls + 1
    /\ pc' = "idle"
    /\ ret' = HTTP_START_FAILED
    /\ active_at_call' = active_requests
    /\ last' = "start_failed"
    /\ UNCHANGED <<setupvars, hdrvars, bodyvars, waitvars, buildvars>>

\* http_request up to a successful start_slot: the call enters run_slot.
HttpRequestStarts ==
    /\ CallEnabled
    /\ \E fin \in {0, 1}, h \in FreshHandles :
          \E slot \in {SlotChosen(Snap)} :
          \E st \in {Acquired(fin, h)} :
              /\ CanAdd(st, st.slots[slot].curl)
              /\ \E d \in Completions(st.running \cup {st.slots[slot].curl}) :
                    \E st1 \in {StartOk(st, slot, ncalls + 1, d)} : Commit(st1)
              /\ cur' = slot
    /\ ncalls' = ncalls + 1
    /\ pc' = "run"
    /\ active_at_call' = active_requests
    /\ last' = "started"
    /\ UNCHANGED <<ret, setupvars, hdrvars, bodyvars, waitvars, buildvars>>

\* What an iteration of run_slot's loop in which d finishes did.
StepLabel(d) ==
    IF ~ShouldDrain(curl_multi_perform(Snap, d)) THEN "step"
    ELSE IF step_slots(Snap, d).matched # matched THEN "step_completed"
    ELSE "step_drained"

\* One iteration of run_slot's loop: step_slots, then the select wait.
RunSlotStepWith(d) ==
    /\ pc = "run"
    /\ slots[cur].finished = 0
    /\ \E st \in {step_slots(Snap, d)} : Commit(st)
    /\ last' = StepLabel(d)
    /\ UNCHANGED <<pc, cur, ncalls, ret, active_at_call>>
    /\ UNCHANGED <<setupvars, hdrvars, bodyvars, waitvars, buildvars>>

RunSlotStep == \E d \in Completions(running) : RunSlotStepWith(d)

\* run_slot finds slot->finished set: http_request returns slot->curl_result.
RunSlotReturn ==
    /\ pc = "run"
    /\ slots[cur].finished = 1
    /\ pc' = "idle"
    /\ ret' = slots[cur].curl_result
    /\ last' = "returned"
    /\ UNCHANGED <<slots, queue_head, curl_session_count, active_requests,
                   live, added, running, msgs, responses, cur, ncalls, xfer,
                   matched, notified, stepped, active_at_call>>
    /\ UNCHANGED <<setupvars, hdrvars, bodyvars, waitvars, buildvars>>

Next ==
    \/ HttpRequestStartFails
    \/ HttpRequestStarts
    \/ RunSlotStep
    \/ RunSlotReturn

Spec == Init /\ [][Next]_vars

\* An iteration of run_slot in which the transfer of the waiting call's
\* handle finishes.
StepCompletingCur ==
    /\ pc = "run"
    /\ \E d \in Completions(running) :
          slots[cur].curl \in HandlesOf(d) /\ RunSlotStepWith(d)

\* The behaviours of at most MaxLiveCalls calls in which the calling thread
\* keeps running its loop (select returns after its timeout at the latest)
\* and the transport finishes the transfer the call waits for.
LiveNext ==
    \/ ncalls < MaxLiveCalls /\ HttpRequestStartFails
    \/ ncalls < MaxLiveCalls /\ HttpRequestStarts
    \/ RunSlotStep
    \/ RunSlotReturn

\* ENABLED <<RunSlotStepWith(d)>>_vars, computed: the loop is at an
\* iteration that changes the state.
StepChanges(d) ==
    /\ pc = "run"
    /\ slots[cur].finished = 0
    /\ step_slots(Snap, d) # Snap \/ StepLabel(d) # last

CanStep == \E d \in Completions(running) : StepChanges(d)

CanCompleteCur ==
    /\ pc = "run"
    /\ slots[cur].finished = 0
    /\ slots[cur].curl \in running

\* Weak fairness of RunSlotStep and of StepCompletingCur, with ENABLED
\* written out as the state predicates above.
StepFairness == []<>(~CanStep) \/ []<><<RunSlotStep>>_vars
CompletionFairness == []<>(~CanCompleteCur) \/ []<><<StepCompletingCur>>_vars

FairSpec ==
    /\ Init
    /\ [][LiveNext]_vars
    /\ WF_vars(RunSlotReturn)
    /\ StepFairness
    /\ CompletionFairness

AllSlots == 1..Len(slots)

TypeOK ==
    /\ \A s \in AllSlots :
          /\ slots[s].in_use \in {0, 1} /\ slots[s].finished \in {0, 1}
          /\ slots[s].curl \in Handles \cup {NULL}
          /\ slots[s].curl_result \in CURLcodes
          /\ slots[s].response \in Calls
          /\ slots[s].next \in AllSlots \cup {NULL}
    /\ Len(slots) <= MaxSlots
    /\ queue_head \in AllSlots \cup {NULL}
    /\ curl_session_count \in 0..MaxSlots
    /\ active_requests \in 0..MaxSlots
    /\ live \subseteq Handles /\ added \subseteq Handles
    /\ running \subseteq added
    /\ HandlesOf(msgs) \subseteq added
    /\ pc \in {"idle", "run"}
    /\ cur \in AllSlots \cup {NULL}
    /\ ncalls \in 0..MaxCalls
    /\ ret \in CURLcodes \cup {HTTP_START_FAILED, NoReturn}
    /\ curl_default \in {NULL, Allocated} /\ curlm \in {NULL, Allocated}
    /\ died \in BOOLEAN /\ hdr_bug \in BOOLEAN
    /\ Len(values) <= Len(hdr_lines) /\ Len(hdr_lines) <= MaxLines
    /\ Len(buf) <= Len(buf_initial) /\ Len(buf_initial) <= MaxBody

----------------------------------------------------------------------------
\* http_init and the allocations that can fail.

\* The process before http_init.
SetupInit ==
    /\ MuxInit
    /\ curl_default = NULL
    /\ curlm = NULL
    /\ died = FALSE
    /\ HdrIdle
    /\ WaitIdle
    /\ BuildIdle
    /\ BodyIdle

\* Lines 245-264.  global_ok: curl_global_init returned CURLE_OK; easy and
\* multi: what curl_easy_init and curl_multi_init returned.
HttpInit ==
    /\ curl_default = NULL
    /\ ~died
    /\ \E global_ok \in BOOLEAN, easy \in {NULL, Allocated},
          multi \in {NULL, Allocated} :
          IF ~global_ok \/ easy = NULL
          THEN died' = TRUE /\ UNCHANGED <<curl_default, curlm>>
          ELSE curl_default' = easy /\ curlm' = multi /\ UNCHANGED died
    /\ UNCHANGED <<muxvars, hdrvars, bodyvars, waitvars, buildvars>>

\* http_request when curl_easy_duphandle returns NULL in get_slot:
\* curl_multi_add_handle refuses the NULL easy handle and start_slot fails.
HttpRequestCloneFails ==
    /\ CallEnabled
    /\ FreshHandles # {NULL}
    /\ \E fin \in {0, 1} :
          \E slot \in {SlotChosen(Snap)} :
          \E st \in {StartFailed(Acquired(fin, NULL), slot)} :
              /\ Commit(st)
              /\ cur' = slot
    /\ ncalls' = ncalls + 1
    /\ pc' = "idle"
    /\ ret' = HTTP_START_FAILED
    /\ active_at_call' = active_requests
    /\ last' = "start_failed"
    /\ UNCHANGED <<setupvars, hdrvars, bodyvars, waitvars, buildvars>>

\* A program that has called http_init and not died.
Ready == curl_default # NULL /\ ~died

\* curl_multi_add_handle fails on a NULL multi handle, so a request starts
\* only when there is one.
SetupNext ==
    \/ HttpInit
    \/ Ready /\ ncalls < MaxLiveCalls /\ HttpRequestStartFails
    \/ Ready /\ ncalls < MaxLiveCalls /\ curlm # NULL /\ HttpRequestStarts
    \/ Ready /\ ncalls < MaxLiveCalls /\ HttpRequestCloneFails
    \/ RunSlotStep
    \/ RunSlotReturn

SetupSpec == SetupInit /\ [][SetupNext]_vars

----------------------------------------------------------------------------
\* fwrite_headers, the CURLOPT_HEADERFUNCTION callback.  A line is the
\* sequence of the size bytes at ptr; a byte is its ASCII code.

SP == 32
HT == 9
CR == 13
LF == 10

isspace(c) == c \in {SP, HT, LF, CR}
tolower(c) == IF c \in 65..90 THEN c + 32 ELSE c

\* strbuf_trim: strbuf_rtrim, then strbuf_ltrim.
RECURSIVE strbuf_rtrim(_)
strbuf_rtrim(b) ==
    IF b # <<>> /\ isspace(b[Len(b)])
    THEN strbuf_rtrim(SubSeq(b, 1, Len(b) - 1)) ELSE b

RECURSIVE strbuf_ltrim(_)
strbuf_ltrim(b) ==
    IF b # <<>> /\ isspace(Head(b)) THEN strbuf_ltrim(Tail(b)) ELSE b

strbuf_trim(b) == strbuf_ltrim(strbuf_rtrim(b))

\* "http/"
http_prefix == <<104, 116, 116, 112, 47>>

\* Line 352: the line starts with the prefix, letter case ignored.
skip_iprefix_mem(line, prefix) ==
    /\ Len(line) >= Len(prefix)
    /\ \A i \in 1..Len(prefix) : tolower(line[i]) = tolower(prefix[i])

is_hdr_continuation(line) ==
    Len(line) > 0 /\ (line[1] = SP \/ line[1] = HT)

\* HdrStatus leaving the strvec as it is.
HdrStatus_Keeps(hs) == hs

\* Line 353: strvec_clear(values).
HdrStatus(hs) == [hs EXCEPT !.values = <<>>]

\* Line 376: the separator put between the previous value and the new one.
JoinSeparator_Always(prev) == <<SP>>
JoinSeparator(prev) == IF prev # <<>> THEN <<SP>> ELSE <<>>

\* HdrContinuation pushing the continuation as an entry of its own.
HdrContinuation_Pushes(hs, line) ==
    LET b == strbuf_trim(line)
    IN  IF Len(hs.values) = 0 THEN [hs EXCEPT !.bug = TRUE]
        ELSE IF Len(b) > 0 THEN [hs EXCEPT !.values = Append(@, b)]
        ELSE hs

\* HdrContinuation testing buf.len before values->nr.
HdrContinuation_EmptyFirst(hs, line) ==
    LET b == strbuf_trim(line)
        n == Len(hs.values)
    IN  IF Len(b) = 0 THEN hs
        ELSE IF n = 0 THEN [hs EXCEPT !.bug = TRUE]
        ELSE [hs EXCEPT !.values[n] = @ \o JoinSeparator(@) \o b]

\* Lines 358-381: the line continues the last captured value.
HdrContinuation(hs, line) ==
    LET b == strbuf_trim(line)
        n == Len(hs.values)
    IN  IF n = 0 THEN [hs EXCEPT !.bug = TRUE]
        ELSE IF Len(b) > 0
        THEN [hs EXCEPT !.values[n] = @ \o JoinSeparator(@) \o b]
        ELSE hs

\* HdrStart pushing nothing for a line that trims to the empty string.
HdrStart_SkipsEmpty(hs, line) ==
    IF strbuf_trim(line) = <<>> THEN hs
    ELSE [hs EXCEPT !.values = Append(@, strbuf_trim(line))]

\* Lines 382-394: the line starts a new header.
HdrStart(hs, line) == [hs EXCEPT !.values = Append(@, strbuf_trim(line))]

fwrite_headers(hs, line) ==
    IF skip_iprefix_mem(line, http_prefix) THEN HdrStatus(hs)
    ELSE IF is_hdr_continuation(line) THEN HdrContinuation(hs, line)
    ELSE HdrStart(hs, line)

\* The lines a server's response is made of here: status lines in upper and
\* lower case, header lines, the empty line that ends a header block,
\* continuation lines (one of white space only) and near misses of both.
HdrLineSet ==
    { <<72, 84, 84, 80, 47, 49, CR, LF>>,       \* "HTTP/1"
      <<104, 116, 116, 112, 47, 50, CR, LF>>,   \* "http/2"
      <<65, 58, 98, CR, LF>>,                   \* "A:b"
      <<66, 58, SP, 99, SP, CR, LF>>,           \* "B: c "
      <<CR, LF>>,                               \* ""
      <<SP, 100, CR, LF>>,                      \* " d"
      <<HT, 101, SP, 102, SP, CR, LF>>,         \* "\te f "
      <<SP, HT, CR, LF>>,                       \* " \t"
      <<72, 84, 84, 80, 58, 120, CR, LF>>,      \* "HTTP:x"
      <<SP, 72, 84, 84, 80, 47, 49, CR, LF>> }  \* " HTTP/1"

\* libcurl calls the header callback with the next line of the response.
FwriteHeaders ==
    /\ ~hdr_bug
    /\ Len(hdr_lines) < MaxLines
    /\ \E line \in HdrLineSet :
          \E hs \in {fwrite_headers([values |-> values, bug |-> FALSE], line)} :
              /\ values' = hs.values
              /\ hdr_bug' = hs.bug
              /\ hdr_lines' = Append(hdr_lines, line)
    /\ UNCHANGED <<muxvars, setupvars, bodyvars, waitvars, buildvars>>

HdrSpec == Init /\ [][FwriteHeaders]_vars

----------------------------------------------------------------------------
\* fread_strbuf, the CURLOPT_READFUNCTION callback of a strbuf body.

Bodies == UNION {[1..n -> {97, 98}] : n \in 0..MaxBody}

\* fread_strbuf without the strbuf_remove.
fread_strbuf_KeepsBuffer(b, eltsize, nmemb) ==
    LET size == IF eltsize * nmemb > Len(b) THEN Len(b) ELSE eltsize * nmemb
    IN  [ptr |-> SubSeq(b, 1, size), buf |-> b, ret |-> size]

\* Lines 291-300.  ptr: the bytes memcpy wrote; buf: the strbuf afterwards.
fread_strbuf(b, eltsize, nmemb) ==
    LET size == IF eltsize * nmemb > Len(b) THEN Len(b) ELSE eltsize * nmemb
    IN  [ptr |-> SubSeq(b, 1, size),
         buf |-> SubSeq(b, size + 1, Len(b)),
         ret |-> size]

\* A request whose data.strbuf.buf is any of Bodies.
BodyInit ==
    /\ MuxInit
    /\ curl_default = Allocated
    /\ curlm = Allocated
    /\ died = FALSE
    /\ HdrIdle
    /\ WaitIdle
    /\ BuildIdle
    /\ buf \in Bodies
    /\ buf_initial = buf
    /\ delivered = <<>>
    /\ last_read = [size |-> 0, ret |-> NoReturn]

\* libcurl asks the read callback for up to eltsize * nmemb bytes, until the
\* callback returns 0.
FreadStrbuf ==
    /\ last_read.ret # 0
    /\ \E eltsize \in {1, 2}, nmemb \in 1..MaxItems :
          \E r \in {fread_strbuf(buf, eltsize, nmemb)} :
              /\ buf' = r.buf
              /\ delivered' = delivered \o r.ptr
              /\ last_read' = [size |-> eltsize * nmemb, ret |-> r.ret]
    /\ UNCHANGED <<buf_initial, muxvars, setupvars, hdrvars, waitvars, buildvars>>

BodySpec == BodyInit /\ [][FreadStrbuf]_vars

-----------------------------------------------------------------------------
\* The wait of run_slot: the part of its loop body after step_slots.

\* The 50 ms run_slot falls back to, in microseconds.
FALLBACK_USEC == 50000
MSEC_PER_SEC == 1000
USEC_PER_MSEC == 1000

\* What curl_multi_timeout stores: -1 when the engine has no timeout set.
Timeouts == (0 - 1)..MaxTimeout
\* What curl_multi_fdset stores in max_fd: -1 when it set no descriptor.
MaxFds == {0 - 1, 0, 3}

\* The struct timeval run_slot derives from curl_timeout (not 0).
select_timeout(curl_timeout) ==
    IF curl_timeout = 0 - 1
    THEN [tv_sec |-> 0, tv_usec |-> FALLBACK_USEC]
    ELSE [tv_sec |-> curl_timeout \div MSEC_PER_SEC,
          tv_usec |-> (curl_timeout % MSEC_PER_SEC) * USEC_PER_MSEC]

\* The timeout once curl_multi_fdset has stored max_fd.
clamp_timeout_UsecOnly(max_fd, tv) ==
    IF max_fd < 0 /\ tv.tv_usec > FALLBACK_USEC
    THEN [tv_sec |-> 0, tv_usec |-> FALLBACK_USEC]
    ELSE tv
clamp_timeout(max_fd, tv) ==
    IF max_fd < 0 /\ (tv.tv_sec > 0 \/ tv.tv_usec > FALLBACK_USEC)
    THEN [tv_sec |-> 0, tv_usec |-> FALLBACK_USEC]
    ELSE tv

\* One pass of the loop body after step_slots: whether select is called and
\* with which timeout.  w holds what the pass finds: in_use of the slot,
\* and, read only while the slot is in use, what curl_multi_timeout and
\* curl_multi_fdset store.
wait_for(w) ==
    IF w.in_use = 0 \/ w.curl_timeout = 0
    THEN [w EXCEPT !.called = TRUE]
    ELSE LET tv == clamp_timeout(w.max_fd, select_timeout(w.curl_timeout))
         IN  [w EXCEPT !.called = TRUE, !.blocked = TRUE,
                       !.tv_sec = tv.tv_sec, !.tv_usec = tv.tv_usec]

WaitInit ==
    /\ MuxInit
    /\ curl_default = Allocated
    /\ curlm = Allocated
    /\ died = FALSE
    /\ HdrIdle
    /\ BodyIdle
    /\ BuildIdle
    /\ \E in_use \in {0, 1}, curl_timeout \in Timeouts, max_fd \in MaxFds :
          selected = [in_use |-> in_use, curl_timeout |-> curl_timeout,
                      max_fd |-> max_fd, called |-> FALSE, blocked |-> FALSE,
                      tv_sec |-> 0, tv_usec |-> 0]

RunSlotWait ==
    /\ ~selected.called
    /\ selected' = wait_for(selected)
    /\ UNCHANGED <<muxvars, setupvars, hdrvars, bodyvars, buildvars>>

WaitSpec == WaitInit /\ [][RunSlotWait]_vars

-----------------------------------------------------------------------------
\* http_request from get_slot to start_slot: the options it sets on the
\* handle of its slot.  b is the handle (easy), the curl_slist heap, the
\* local variable headers and whether BUG() was reached.

MaxExtras == 2  \* items of req->extra_headers

\* The strings of the caller's extra_headers.
ExtraHeaderSet == {"X-A: 1", "X-B: 2"}
\* req->extra_headers: NULL or a string_list of distinct items.
ExtraHeaders ==
    {[null |-> TRUE, items |-> <<>>]} \cup
    {[null |-> FALSE, items |-> is] :
        is \in {is \in UNION {[1..n -> ExtraHeaderSet] : n \in 0..MaxExtras} :
                   \A i, j \in 1..Len(is) : i # j => is[i] # is[j]}}
Methods == {"HTTP_GET", "HTTP_HEAD", "HTTP_POST"}
RequestDataTypes ==
    {"HTTP_DATA_NONE", "HTTP_DATA_CALLBACK", "HTTP_DATA_FILE",
     "HTTP_DATA_STRBUF", "HTTP_DATA_POSTFIELDS"}
ResponseDataTypes == RequestDataTypes
ContentTypes == {NullStr, "text/plain"}

Requests(k) ==
    {Request(k, nc, m, xs, dt, ct) :
        nc \in BOOLEAN, m \in Methods, xs \in ExtraHeaders,
        dt \in RequestDataTypes, ct \in ContentTypes} \
    {r \in {Request(k, nc, m, xs, dt, "text/plain") :
                nc \in BOOLEAN, m \in Methods, xs \in ExtraHeaders,
                dt \in RequestDataTypes} : r.data_type # "HTTP_DATA_STRBUF"}
Responses(k) ==
    {Response(k, h, dt) :
        h \in {NullPtr, Ptr("res->headers", k)}, dt \in ResponseDataTypes}

curl_easy_setopt(b, option, value) == [b EXCEPT !.easy[option] = value]

\* curl_slist_append(headers, str): a new list when headers is NULL, else
\* str is appended to the list in place and the same pointer is returned.
curl_slist_append_Copies(b, str) ==
    IF b.headers = NULL
    THEN [b EXCEPT !.heap = Append(@, <<str>>), !.headers = Len(b.heap) + 1]
    ELSE [b EXCEPT !.heap = Append(@, Append(b.heap[b.headers], str)),
                   !.headers = Len(b.heap) + 1]
curl_slist_append(b, str) ==
    IF b.headers = NULL
    THEN [b EXCEPT !.heap = Append(@, <<str>>), !.headers = Len(b.heap) + 1]
    ELSE [b EXCEPT !.heap[b.headers] = Append(@, str)]

SetMethod(b, rq) ==
    CASE rq.method = "HTTP_GET" -> curl_easy_setopt(b, "httpget", 1)
      [] rq.method = "HTTP_HEAD" -> curl_easy_setopt(b, "nobody", 1)
      [] rq.method = "HTTP_POST" -> curl_easy_setopt(b, "post", 1)

SetPragma(b, rq) ==
    IF rq.no_cache THEN curl_slist_append(b, "Pragma: no-cache")
    ELSE curl_slist_append(b, "Pragma:")

RECURSIVE AppendItems(_, _)
AppendItems(b, items) ==
    IF items = <<>> THEN b
    ELSE AppendItems(curl_slist_append(b, Head(items)), Tail(items))

SetExtraHeaders(b, rq) ==
    IF rq.extra_headers.null THEN b ELSE AppendItems(b, rq.extra_headers.items)

\* CURLOPT_HTTPHEADER: libcurl keeps the pointer, not a copy of the list.
SetHeaderList(b) == curl_easy_setopt(b, "httpheader", b.headers)

\* The build without GIT_CURL_HAVE_HEADER_API.
SetHeaderCapture(b, rs) ==
    IF rs.headers # NullPtr
    THEN curl_easy_setopt(
             curl_easy_setopt(b, "headerfunction", Ptr("fwrite_headers", 0)),
             "headerdata", rs.headers)
    ELSE b

SetRequestContent(b, rq) ==
    LET k == rq.call
    IN  CASE rq.data_type = "HTTP_DATA_NONE" ->
               curl_easy_setopt(b, "readfunction", Ptr("fread_null", 0))
          [] rq.data_type = "HTTP_DATA_CALLBACK" ->
               curl_easy_setopt(
                   curl_easy_setopt(b, "readfunction",
                                    Ptr("req->data.callback.fn", k)),
                   "readdata", Ptr("req->data.callback.userdata", k))
          [] rq.data_type = "HTTP_DATA_FILE" ->
               curl_easy_setopt(
                   curl_easy_setopt(b, "readfunction", Ptr("fread", 0)),
                   "readfunction", Ptr("res->data.file", k))
          [] rq.data_type = "HTTP_DATA_STRBUF" ->
               LET c == curl_easy_setopt(
                            curl_easy_setopt(b, "readfunction",
                                             Ptr("fread_strbuf", 0)),
                            "readdata", Ptr("req->data.strbuf.buf", k))
               IN  IF rq.content_type # NullStr
                   THEN curl_slist_append(c, "Content-Type: " \o rq.content_type)
                   ELSE c
          [] rq.data_type = "HTTP_DATA_POSTFIELDS" ->
               curl_easy_setopt(
                   curl_easy_setopt(b, "postfields",
                                    Ptr("req->data.postfields.data", k)),
                   "postfieldsize", Ptr("req->data.postfields.len", k))

SetResponseContent(b, rs) ==
    LET k == rs.call
    IN  CASE rs.data_type = "HTTP_DATA_NONE" ->
               curl_easy_setopt(b, "writefunction", Ptr("fwrite_null", 0))
          [] rs.data_type = "HTTP_DATA_CALLBACK" ->
               curl_easy_setopt(
                   curl_easy_setopt(b, "writefunction",
                                    Ptr("res->data.callback.fn", k)),
                   "writedata", Ptr("res->data.callback.userdata", k))
          [] rs.data_type = "HTTP_DATA_FILE" ->
               curl_easy_setopt(
                   curl_easy_setopt(b, "writefunction", Ptr("fwrite", 0)),
                   "writedata", Ptr("res->data.file", k))
          [] rs.data_type = "HTTP_DATA_STRBUF" ->
               curl_easy_setopt(
                   curl_easy_setopt(b, "writefunction", Ptr("fwrite_strbuf", 0)),
                   "writedata", Ptr("res->data.strbuf", k))
          [] OTHER -> [b EXCEPT !.bug = TRUE]

\* http_request never frees the lists it builds: a list no pointer refers to
\* any more can be neither read nor freed, and is left out of the heap.
Reachable(b) ==
    IF b.easy.httpheader = NULL THEN [b EXCEPT !.heap = <<>>]
    ELSE [b EXCEPT !.heap = <<b.heap[b.easy.httpheader]>>,
                   !.easy.httpheader = 1]

\* The handle after lines 403-501 of a call with descriptors rq and rs.
build(handle, lists, rq, rs) ==
    LET b0 == [easy |-> handle, heap |-> lists, headers |-> NULL, bug |-> FALSE]
        b1 == curl_easy_setopt(b0, "url", Ptr("req->url", rq.call))
        b2 == SetMethod(b1, rq)
        b3 == SetPragma(b2, rq)
        b4 == SetExtraHeaders(b3, rq)
        b5 == SetHeaderList(b4)
        b6 == SetHeaderCapture(b5, rs)
        b7 == SetRequestContent(b6, rq)
        b8 == SetResponseContent(b7, rs)
    IN  Reachable(b8)

Built(rq, rs) ==
    LET b == build(curl_opts, heap, rq, rs)
    IN  /\ curl_opts' = b.easy
        /\ heap' = b.heap
        /\ build_bug' = b.bug
        /\ req' = rq
        /\ res' = rs
        /\ nbuilt' = nbuilt + 1
        /\ UNCHANGED <<muxvars, setupvars, hdrvars, bodyvars, waitvars>>

\* The first call on a slot: get_slot has just duplicated its handle.
BuildFirst ==
    /\ nbuilt = 0
    /\ \E rq \in Requests(1), rs \in Responses(1) : Built(rq, rs)

\* The next call to acquire the slot: get_slot found the handle in place.
BuildAgain ==
    /\ nbuilt = 1
    /\ ~build_bug
    /\ \E rq \in Requests(2), rs \in Responses(2) : Built(rq, rs)

BuildNext == BuildFirst \/ BuildAgain

BuildSpec == Init /\ [][BuildNext]_vars

----------------------------------------------------------------------------
\* Vocabulary of the properties.

InUse == {s \in AllSlots : slots[s].in_use = 1}
Holding == {s \in AllSlots : slots[s].curl # NULL}
CleanupRan == last \in {"step_drained", "step_completed"}

\* C1: a call of http_request whose start_slot succeeded returns only after
\* the transfer it added has finished and been matched by
\* process_curl_messages (its slot is no longer in use and its handle is no
\* longer added to the multi handle).
C1_SendIsSynchronous ==
    last = "returned" =>
        /\ matched[ncalls] = 1
        /\ slots[cur].in_use = 0
        /\ slots[cur].curl \notin added

\* C2: every started request is completed exactly once: its DONE message is
\* never popped without finishing its slot (which would leave it completed
\* zero times for good), and its slot is never finished twice for it.
C2_CompletedExactlyOnce ==
    \A c \in Calls :
        /\ matched[c] <= 1
        /\ notified[c] # NoReturn => matched[c] = 1

\* C3: a return value other than HTTP_START_FAILED is the result code carried
\* by the DONE message of the call's own transfer and is the curl_result
\* stored in the call's http_response when the call returns.
C3_ReturnsTransportResult ==
    last = "returned" =>
        /\ notified[ncalls] # NoReturn
        /\ ret = notified[ncalls]
        /\ ret = responses[ncalls]

\* C4: no easy handle is held by two slots at once.
C4_NoSharedHandle ==
    \A s \in Holding, t \in Holding : s # t => slots[s].curl # slots[t].curl

C4_Witness ==
    \E s \in InUse, t \in InUse : s # t /\ {s, t} \subseteq Holding

\* C5: active_requests is the number of slots of the list with in_use = 1.
C5_ActiveCountsInUse ==
    active_requests = Cardinality(Pool \cap InUse)

\* C6: if the transport finishes every running transfer, every call of
\* http_request returns.
C6_SendReturns == (pc = "run") ~> (pc = "idle")

C6_Witness ==
    /\ last = "returned"
    /\ cur > 1
    /\ matched[ncalls] = 1

\* C7: when curl_multi_add_handle fails, http_request returns
\* HTTP_START_FAILED without any curl_multi_perform; the slot is then idle
\* and in the list, still holds its handle, the handle is not added to the
\* multi handle, and active_requests is what it was before the call.
C7_StartFailure ==
    last = "start_failed" =>
        /\ ret = HTTP_START_FAILED
        /\ ~stepped
        /\ slots[cur].in_use = 0
        /\ slots[cur].curl \in live
        /\ slots[cur].curl \notin added
        /\ active_requests = active_at_call
        /\ cur \in Pool

C7_Witness ==
    /\ last = "start_failed"
    /\ active_requests > 0
    /\ FirstIdle(slots, queue_head) = cur

\* C8: a cleanup pass (it runs in the steps that drain; nothing before it in
\* the step changes curl_session_count) leaves a count that was at least
\* min_curl_sessions at least min_curl_sessions, and leaves a count that was
\* at most min_curl_sessions unchanged.
C8_CleanupKeepsFloor ==
    [][last' \in {"step_drained", "step_completed"} =>
          /\ curl_session_count >= min_curl_sessions =>
                curl_session_count' >= min_curl_sessions
          /\ curl_session_count <= min_curl_sessions =>
                curl_session_count' = curl_session_count]_vars

C8_Witness ==
    /\ CleanupRan
    /\ curl_session_count = min_curl_sessions
    /\ \E s \in AllSlots : slots[s].in_use = 0 /\ slots[s].curl = NULL
    /\ \E s \in AllSlots : slots[s].in_use = 0 /\ slots[s].curl # NULL

\* C9: right after the cleanup pass that follows a completion, either
\* curl_session_count is at most min_curl_sessions or no idle slot, among
\* all the slots ever created, still holds a handle.
C9_IdleReclaimed ==
    last = "step_completed" =>
        \/ curl_session_count <= min_curl_sessions
        \/ \A s \in AllSlots : slots[s].in_use = 0 => slots[s].curl = NULL

\* C10: the handle of a slot in use is never destroyed, and neither is a
\* handle that is added to the multi handle.
C10_DestroyOnlyIdle ==
    /\ \A s \in InUse : slots[s].curl \in live
    /\ added \subseteq live

C10_Witness ==
    /\ CleanupRan
    /\ \E s \in AllSlots : slots[s].curl = NULL
    /\ \E t \in InUse : slots[t].curl \in added

\* C11: a call of get_slot that picks a slot already holding an easy handle
\* keeps that handle, duplicates nothing and leaves curl_session_count as it
\* was; a call that picks a slot without a handle stores a newly duplicated
\* handle and adds exactly one to curl_session_count.
C11_ReuseKeepsCounter ==
    [][ncalls' # ncalls =>
          LET held == IF cur' \in AllSlots THEN slots[cur'].curl ELSE NULL
          IN  /\ held # NULL =>
                    /\ slots'[cur'].curl = held
                    /\ live' = live
                    /\ curl_session_count' = curl_session_count
              /\ held = NULL =>
                    /\ slots'[cur'].curl \in live' \ live
                    /\ curl_session_count' = curl_session_count + 1]_vars

C11_Witness ==
    /\ last = "started"
    /\ ncalls = 2
    /\ cur = 1
    /\ matched[1] = 1
    /\ slots[1].finished = 1
    /\ curl_session_count = 1

\* The calls whose DONE message this step popped without finding a slot, and
\* the calls whose slot this step finished.
SkippedNow == {c \in Calls : notified'[c] # notified[c] /\ matched'[c] = matched[c]}
FinishedNow == {c \in Calls : matched'[c] # matched[c]}

\* C12: a drain that pops a DONE message whose handle is on no slot of the
\* list goes on to the end of the message queue and still finishes every
\* slot whose message it holds; the skipped message changes no slot outside
\* the list, active_requests falls only by the number of slots finished, and
\* curl_session_count falls only by the number of handles cleanup_slots
\* destroyed.
C12_UnmatchedSkipped ==
    [][SkippedNow # {} =>
          /\ msgs' = <<>>
          /\ \A h \in HandlesOf(msgs) \cup (running \ running') :
                FindByHandle(slots, queue_head, h) # NULL =>
                    xfer[h] \in FinishedNow
          /\ \A s \in AllSlots \ Pool : slots'[s] = slots[s]
          /\ active_requests' = active_requests - Cardinality(FinishedNow)
          /\ curl_session_count' = curl_session_count -
                Cardinality({s \in AllSlots :
                                slots[s].curl # NULL /\ slots'[s].curl = NULL})
          /\ live' = {slots'[s].curl : s \in AllSlots} \ {NULL}]_vars

C12_Witness ==
    /\ last = "step_completed"
    /\ msgs = <<>>
    /\ \E s \in InUse \ Pool :
          /\ notified[slots[s].response] # NoReturn
          /\ matched[slots[s].response] = 0
          /\ slots[s].curl \in added \ running

\* The terms of the header properties, stated on the bytes of a line: a
\* status line starts with "HTTP/" in any letter case, a continuation line
\* starts with a space or a horizontal tab, any other line starts a header.
StatusLine(l) ==
    /\ Len(l) >= 5
    /\ l[1] \in {72, 104} /\ l[2] \in {84, 116} /\ l[3] \in {84, 116}
    /\ l[4] \in {80, 112} /\ l[5] = 47
ContinuationLine(l) == l # <<>> /\ l[1] \in {SP, HT}
HeaderLine(l) == ~StatusLine(l) /\ ~ContinuationLine(l)

\* The line without its leading and trailing white space.
Trimmed(l) ==
    LET black == {i \in 1..Len(l) : l[i] \notin {SP, HT, CR, LF}}
    IN  IF black = {} THEN <<>>
        ELSE SubSeq(l, CHOOSE i \in black : \A j \in black : i <= j,
                       CHOOSE i \in black : \A j \in black : i >= j)

\* The header list the lines ls fold into, continued from acc.  joinEmpty:
\* a space is put before a continuation also when the value so far is empty.
RECURSIVE Folded(_, _, _)
Folded(acc, ls, joinEmpty) ==
    IF ls = <<>> THEN acc
    ELSE LET l == Head(ls)
             t == Trimmed(l)
             n == Len(acc)
         IN  IF StatusLine(l) THEN Folded(<<>>, Tail(ls), joinEmpty)
             ELSE IF HeaderLine(l) THEN Folded(Append(acc, t), Tail(ls), joinEmpty)
             ELSE IF t = <<>> \/ n = 0 THEN Folded(acc, Tail(ls), joinEmpty)
             ELSE IF acc[n] = <<>> /\ ~joinEmpty
             THEN Folded([acc EXCEPT ![n] = t], Tail(ls), joinEmpty)
             ELSE Folded([acc EXCEPT ![n] = @ \o <<SP>> \o t], Tail(ls), joinEmpty)

\* A status line followed by header lines, each followed by its continuation
\* lines.
OneResponse(ls) ==
    /\ ls # <<>>
    /\ StatusLine(ls[1])
    /\ \A i \in 2..Len(ls) : ~StatusLine(ls[i])
    /\ Len(ls) >= 2 => HeaderLine(ls[2])

\* C13 as claimed: after a status line followed by header lines and their
\* continuation lines, the strvec holds one entry per header line, in order:
\* the trimmed header line and then each of its non-empty trimmed
\* continuation lines, every one joined on with a single space.
C13_HeaderFolding ==
    OneResponse(hdr_lines) =>
        ~hdr_bug /\ values = Folded(<<>>, hdr_lines, TRUE)

\* C13 as amended: the same, except that a continuation is joined on without
\* a space while the value so far is empty.
C13_HeaderFoldingAmended ==
    OneResponse(hdr_lines) =>
        ~hdr_bug /\ values = Folded(<<>>, hdr_lines, FALSE)

\* "HTTP/1", "A:b", " d", "B: c ": the header list is "A:b d", "B: c".
C13_Witness ==
    /\ Len(hdr_lines) = 4
    /\ OneResponse(hdr_lines)
    /\ HeaderLine(hdr_lines[2]) /\ Trimmed(hdr_lines[2]) # <<>>
    /\ ContinuationLine(hdr_lines[3]) /\ Trimmed(hdr_lines[3]) # <<>>
    /\ HeaderLine(hdr_lines[4])
    /\ Len(values) = 2
    /\ values[1] = Trimmed(hdr_lines[2]) \o <<SP>> \o Trimmed(hdr_lines[3])

\* The lines after the last status line of ls (all of ls when it has none).
AfterLastStatus(ls) ==
    LET at == {i \in 1..Len(ls) : StatusLine(ls[i])}
    IN  IF at = {} THEN ls
        ELSE SubSeq(ls, (CHOOSE i \in at : \A j \in at : i >= j) + 1, Len(ls))

\* C14: whatever lines came before it, a status line ("HTTP/" in any letter
\* case) empties the strvec and adds nothing to it: after any sequence of
\* lines the strvec is what the lines after the last status line fold into.
C14_RedirectReset ==
    ~hdr_bug => values = Folded(<<>>, AfterLastStatus(hdr_lines), FALSE)

\* A status line, a header, a second status line and another header: only
\* the second header is captured.
C14_Witness ==
    /\ Len(hdr_lines) = 4
    /\ StatusLine(hdr_lines[1]) /\ HeaderLine(hdr_lines[2])
    /\ StatusLine(hdr_lines[3]) /\ HeaderLine(hdr_lines[4])
    /\ hdr_lines[1] # hdr_lines[3]
    /\ Trimmed(hdr_lines[2]) # Trimmed(hdr_lines[4])
    /\ values = <<Trimmed(hdr_lines[4])>>

\* The line fwrite_headers is called with in this step.
LineNow == hdr_lines'[Len(hdr_lines')]

\* C15: in a response that began with a status line, whenever fwrite_headers
\* is called with a continuation line the strvec holds at least one entry,
\* also when the continuation line comes right after a status line.
C15_AccumulatorNonEmpty ==
    [][/\ hdr_lines' # hdr_lines
       /\ hdr_lines # <<>> /\ StatusLine(hdr_lines[1])
       /\ ContinuationLine(LineNow)
       => values # <<>>]_vars

\* C16: a call of fwrite_headers with a continuation line while the strvec is
\* empty reaches BUG() and adds no entry, whether or not the line trims to
\* the empty string.
C16_ContinuationOnEmptyAborts ==
    [][/\ hdr_lines' # hdr_lines
       /\ ContinuationLine(LineNow)
       /\ values = <<>>
       => hdr_bug' /\ values' = <<>>]_vars

\* BUG() was reached by a continuation line of white space only.
C16_Witness ==
    /\ hdr_bug
    /\ values = <<>>
    /\ ContinuationLine(hdr_lines[Len(hdr_lines)])
    /\ Trimmed(hdr_lines[Len(hdr_lines)]) = <<>>

\* C17: the bytes fread_strbuf has copied out, followed by the bytes still in
\* the strbuf, are the strbuf as it was before the first call; each call
\* returns the lesser of the size asked for and the bytes that were left;
\* and once a call has returned 0 the strbuf is empty and every byte of the
\* original strbuf was copied out, in order.
C17_BufferDrain ==
    /\ delivered \o buf = buf_initial
    /\ last_read.ret # NoReturn =>
          LET left == Len(buf) + last_read.ret
          IN  last_read.ret =
                 IF last_read.size < left THEN last_read.size ELSE left
    /\ last_read.ret = 0 => buf = <<>> /\ delivered = buf_initial

\* A strbuf of more than MaxItems bytes, not all the same, was read out to
\* the call that returned 0.
C17_Witness ==
    /\ last_read.ret = 0
    /\ Len(buf_initial) > MaxItems
    /\ \E i \in 1..Len(buf_initial) : buf_initial[i] # buf_initial[1]
    /\ delivered = buf_initial

\* C18: unless the process has died, http_init has left both a template
\* handle and a multi handle, every slot handed out by get_slot holds an
\* easy handle, and curl_session_count counts only handles that exist.
C18_SetupFaultsFatal ==
    ~died =>
        /\ curl_default # NULL => curlm # NULL
        /\ last \in {"start_failed", "started"} => slots[cur].curl # NULL
        /\ curl_session_count = Cardinality(live)

\* C19: the slot get_slot hands out (seen when start_slot has succeeded,
\* which writes no slot field and leaves active_requests alone) has
\* in_use = 1, finished = 0 and curl_result = CURLE_OK, and active_requests
\* is one more than before the call.
C19_AcquireResets ==
    last = "started" =>
        /\ slots[cur].in_use = 1
        /\ slots[cur].finished = 0
        /\ slots[cur].curl_result = CURLE_OK
        /\ active_requests = active_at_call + 1

\* C20: every slot of the list before a step is in the list after it; a call
\* of get_slot that allocates a slot does so only when no slot of the list is
\* idle, and links it after the former tail.
C20_SlotsRetained ==
    [][/\ Pool \subseteq Pool'
       /\ Len(slots') > Len(slots) =>
             /\ FirstIdle(slots, queue_head) = NULL
             /\ ListFrom(slots', queue_head') =
                   Append(ListFrom(slots, queue_head), Len(slots'))]_vars

\* C21: in every step, a slot's in_use goes from 0 to 1 only in the call of
\* http_request that get_slot hands it to; it goes from 1 to 0 only when the
\* drain matches the slot's DONE message, which sets finished; a call whose
\* start_slot fails leaves its slot with in_use = 0, does not write
\* finished, adds no handle and pops no message; a slot's handle is taken
\* from it only by cleanup_slots and only while the slot is not in use; no
\* slot record is freed.
C21_Lifecycle ==
    [][/\ \A s \in 1..Len(slots') :
             LET was == IF s \in AllSlots THEN slots[s].in_use ELSE 0
             IN  /\ was = 0 /\ slots'[s].in_use = 1 =>
                       ncalls' = ncalls + 1 /\ s = cur' /\ last' = "started"
                 /\ was = 1 /\ slots'[s].in_use = 0 =>
                       /\ slots'[s].finished = 1
                       /\ slots[s].response \in FinishedNow
                       /\ last' = "step_completed"
                 /\ s \in AllSlots /\ slots[s].curl # NULL
                       /\ slots'[s].curl # slots[s].curl =>
                       /\ slots'[s].curl = NULL
                       /\ slots'[s].in_use = 0
                       /\ last' \in {"step_drained", "step_completed"}
       /\ ncalls' # ncalls /\ last' = "start_failed" =>
             /\ slots'[cur'].in_use = 0
             /\ cur' \in AllSlots => slots'[cur'].finished = slots[cur'].finished
             /\ slots'[cur'].curl \notin added'
             /\ FinishedNow = {} /\ SkippedNow = {}
             /\ running' = running /\ msgs' = msgs
       /\ Len(slots') >= Len(slots)]_vars

\* A slot whose request completed and whose handle cleanup_slots then
\* destroyed, next to a slot still in use and a slot whose start failed.
C21_Witness ==
    /\ last = "start_failed"
    /\ slots[cur].finished = 0
    /\ \E s \in AllSlots :
          slots[s].in_use = 0 /\ slots[s].finished = 1 /\ slots[s].curl = NULL
    /\ InUse # {}

\* The slots this step's drain matched.
MatchedNow == {s \in AllSlots : slots[s].in_use = 1 /\ slots'[s].in_use = 0}

\* C22: in a step of run_slot, for every slot the drain matches: its handle
\* was added to the multi handle and no longer is, the result the DONE
\* message carried is the slot's curl_result and the curl_result of the
\* response attached to the slot, and the slot has in_use = 0 and
\* finished = 1; active_requests falls by one per matched slot; the
\* multi handle loses no other handle, no other response is written, and no
\* other slot's in_use, finished, curl_result or response changes.
C22_MatchEffects ==
    [][ncalls' = ncalls =>
          /\ \A s \in MatchedNow :
                LET c == slots[s].response
                IN  /\ slots[s].curl \in added \ added'
                    /\ xfer[slots[s].curl] = c
                    /\ notified'[c] \in CURLcodes
                    /\ slots'[s].curl_result = notified'[c]
                    /\ responses'[c] = notified'[c]
                    /\ slots'[s].finished = 1
          /\ active_requests' = active_requests - Cardinality(MatchedNow)
          /\ added' = added \ {slots[s].curl : s \in MatchedNow}
          /\ \A c \in Calls :
                responses'[c] # responses[c] =>
                    \E s \in MatchedNow : slots[s].response = c
          /\ \A s \in AllSlots \ MatchedNow :
                /\ slots'[s].in_use = slots[s].in_use
                /\ slots'[s].finished = slots[s].finished
                /\ slots'[s].curl_result = slots[s].curl_result
                /\ slots'[s].response = slots[s].response]_vars

\* A drain has matched a transfer that failed while another slot stays in
\* use.
C22_Witness ==
    /\ last = "step_completed"
    /\ InUse # {}
    /\ \E s \in AllSlots :
          /\ slots[s].in_use = 0 /\ slots[s].finished = 1
          /\ slots[s].curl_result = CURLE_COULDNT_CONNECT
          /\ responses[slots[s].response] = CURLE_COULDNT_CONNECT
          /\ matched[slots[s].response] = 1

\* C23: when a step has drained, curl_multi_info_read has nothing left to
\* return, and every slot of the list whose handle is still added to the
\* multi handle has a transfer that is still running: every transfer that
\* had finished by then was handled by that one drain.
C23_DrainConsumesAll ==
    CleanupRan =>
        /\ msgs = <<>>
        /\ \A s \in Pool : slots[s].curl \in added => slots[s].curl \in running

\* The transfers of two calls, with different results, have both been
\* matched and nothing is left added.
C23_Witness ==
    /\ last = "step_completed"
    /\ ncalls = 2
    /\ matched[1] = 1 /\ matched[2] = 1
    /\ notified[1] # notified[2]
    /\ added = {}

\* C24: in a step of run_slot, if curl_multi_perform reports fewer running
\* transfers than active_requests, the message queue is drained and then
\* cleanup_slots runs (no idle slot of the list, the ones just finished
\* included, keeps a handle while curl_session_count is above
\* min_curl_sessions); otherwise no message is read and no slot, counter,
\* handle or response changes.
C24_StepDrainsIff ==
    [][pc = "run" /\ pc' = "run" =>
          IF Cardinality(running') < active_requests
          THEN /\ msgs' = <<>>
               /\ \A s \in Pool' :
                     slots'[s].in_use = 0 /\ slots'[s].curl # NULL =>
                         curl_session_count' <= min_curl_sessions
          ELSE /\ slots' = slots
               /\ active_requests' = active_requests
               /\ curl_session_count' = curl_session_count
               /\ live' = live /\ added' = added
               /\ responses' = responses
               /\ Len(msgs') = Len(msgs) + Cardinality(running \ running')]_vars

\* A step that did not drain: the transfers of two active slots are both
\* still running.
C24_Witness ==
    /\ last = "step"
    /\ active_requests = 2
    /\ Cardinality(running) = active_requests
    /\ curl_session_count > min_curl_sessions

\* C30: whenever the drain matches a slot, the http_response attached to the
\* slot is that of the call of http_request in progress (call number ncalls,
\* inside run_slot): no response of a call that has returned is written.
C30_WritesLiveResponseOnly ==
    [][\A s \in MatchedNow :
          /\ pc = "run"
          /\ slots[s].response = ncalls
          /\ \A c \in Calls : responses'[c] # responses[c] => c = ncalls]_vars

\* The strvec but for its last entry.
Front(vs) == SubSeq(vs, 1, Len(vs) - 1)

\* fwrite_headers is called in this step with a continuation line while the
\* strvec holds an entry.
ContinuationNow ==
    /\ hdr_lines' # hdr_lines
    /\ ContinuationLine(LineNow)
    /\ values # <<>>

\* C26 as claimed: a continuation line with non-empty trimmed content
\* replaces the last captured value v by v, one space and the trimmed
\* content, whatever v is, and changes no other entry; a continuation line
\* that trims to nothing leaves a non-empty strvec as it is.
C26_ContinuationJoin ==
    [][ContinuationNow =>
          /\ ~hdr_bug'
          /\ IF Trimmed(LineNow) = <<>> THEN values' = values
             ELSE /\ Len(values') = Len(values)
                  /\ Front(values') = Front(values)
                  /\ values'[Len(values)] =
                         values[Len(values)] \o <<SP>> \o Trimmed(LineNow)]_vars

\* C26 as amended: the same, with the space only when v is not empty.
C26_ContinuationJoinAmended ==
    [][ContinuationNow =>
          /\ ~hdr_bug'
          /\ IF Trimmed(LineNow) = <<>> THEN values' = values
             ELSE /\ Len(values') = Len(values)
                  /\ Front(values') = Front(values)
                  /\ values'[Len(values)] =
                         IF values[Len(values)] = <<>> THEN Trimmed(LineNow)
                         ELSE values[Len(values)] \o <<SP>> \o Trimmed(LineNow)]_vars

\* A continuation line was joined on to an empty value that follows a
\* non-empty one: "HTTP/1", "A:b", "", " d" gives "A:b", "d".
C26_Witness ==
    /\ Len(hdr_lines) = 4
    /\ StatusLine(hdr_lines[1])
    /\ HeaderLine(hdr_lines[2]) /\ Trimmed(hdr_lines[2]) # <<>>
    /\ HeaderLine(hdr_lines[3]) /\ Trimmed(hdr_lines[3]) = <<>>
    /\ ContinuationLine(hdr_lines[4]) /\ Trimmed(hdr_lines[4]) # <<>>
    /\ values = <<Trimmed(hdr_lines[2]), Trimmed(hdr_lines[4])>>

\* How long select was told to block at most, in microseconds.
Blocked_usec == selected.tv_sec * MSEC_PER_SEC * USEC_PER_MSEC + selected.tv_usec

\* C25: run_slot blocks in select exactly when the slot is still in use after
\* step_slots and curl_multi_timeout did not store 0.  It then blocks for
\* 50 ms when the stored timeout is -1, and otherwise for the stored timeout,
\* except that with no descriptor set (max_fd < 0) a timeout above 50 ms
\* becomes 50 ms: a wait without descriptors never exceeds 50 ms.
C25_WaitDuration ==
    LET t == selected.curl_timeout
    IN  /\ selected.called =>
              (selected.blocked <=> selected.in_use = 1 /\ t # 0)
        /\ selected.blocked =>
              /\ t = 0 - 1 => Blocked_usec = FALLBACK_USEC
              /\ t > 0 /\ selected.max_fd >= 0 =>
                    Blocked_usec = t * USEC_PER_MSEC
              /\ t > 0 /\ selected.max_fd < 0 =>
                    Blocked_usec = IF t * USEC_PER_MSEC > FALLBACK_USEC
                                   THEN FALLBACK_USEC
                                   ELSE t * USEC_PER_MSEC
              /\ selected.max_fd < 0 => Blocked_usec <= FALLBACK_USEC

\* A timeout of a whole second with no descriptor set was cut to 50 ms.
C25_Witness ==
    /\ selected.blocked
    /\ selected.max_fd < 0
    /\ selected.curl_timeout = MSEC_PER_SEC
    /\ Blocked_usec = FALLBACK_USEC

\* The list libcurl sends with the transfer of the handle.
HeadersSent ==
    IF curl_opts.httpheader = NULL THEN <<>> ELSE heap[curl_opts.httpheader]

\* C27: after the set-up of http_request the list of CURLOPT_HTTPHEADER is
\* "Pragma: no-cache" (no_cache set) or "Pragma:", then the strings of
\* extra_headers in their order, then, for a strbuf body with a
\* content_type, "Content-Type: " and that type; the Content-Type entry is
\* in the list the handle holds.
C27_HeaderList ==
    nbuilt > 0 /\ ~build_bug =>
        HeadersSent =
            <<IF req.no_cache THEN "Pragma: no-cache" ELSE "Pragma:">>
            \o req.extra_headers.items
            \o (IF req.data_type = "HTTP_DATA_STRBUF" /\ req.content_type # NullStr
                THEN <<"Content-Type: " \o req.content_type>>
                ELSE <<>>)

\* A strbuf body with a content type on a reused handle, after two extra
\* headers: the list sent has four entries, the last one the Content-Type.
C27_Witness ==
    /\ nbuilt = 2 /\ ~build_bug
    /\ req.data_type = "HTTP_DATA_STRBUF" /\ req.content_type = "text/plain"
    /\ Len(req.extra_headers.items) = 2
    /\ Len(HeadersSent) = 4
    /\ HeadersSent[4] = "Content-Type: text/plain"

\* C28: the reader http_request installs matches the data_type of the
\* request, and both CURLOPT_READFUNCTION and CURLOPT_READDATA come from the
\* request: none gives fread_null; strbuf gives fread_strbuf on
\* req->data.strbuf.buf; file gives fread on req->data.file; callback gives
\* req->data.callback.fn on req->data.callback.userdata.
C28_BodySource ==
    nbuilt > 0 /\ ~build_bug =>
        LET k == req.call
        IN  /\ req.data_type = "HTTP_DATA_NONE" =>
                  curl_opts.readfunction = Ptr("fread_null", 0)
            /\ req.data_type = "HTTP_DATA_STRBUF" =>
                  /\ curl_opts.readfunction = Ptr("fread_strbuf", 0)
                  /\ curl_opts.readdata = Ptr("req->data.strbuf.buf", k)
            /\ req.data_type = "HTTP_DATA_FILE" =>
                  /\ curl_opts.readfunction = Ptr("fread", 0)
                  /\ curl_opts.readdata = Ptr("req->data.file", k)
            /\ req.data_type = "HTTP_DATA_CALLBACK" =>
                  /\ curl_opts.readfunction = Ptr("req->data.callback.fn", k)
                  /\ curl_opts.readdata = Ptr("req->data.callback.userdata", k)

\* The pointers the handle uses for the body, the response and the header
\* capture.
Wiring ==
    {curl_opts.readfunction, curl_opts.readdata,
     curl_opts.writefunction, curl_opts.writedata,
     curl_opts.headerfunction, curl_opts.headerdata}

\* C29: after http_request has set up a handle an earlier call used, the
\* reader, the writer and the header capture of the handle point to nothing
\* of the earlier call, and with res->headers NULL no header capture is
\* installed.
C29_WiringOfThisCall ==
    nbuilt = 2 /\ ~build_bug =>
        /\ \A p \in Wiring : p.call \in {0, req.call}
        /\ res.headers = NullPtr =>
              curl_opts.headerfunction # Ptr("fwrite_headers", 0)

\* C31: in every state curl_session_count is the number of slots of the list
\* from queue_head that hold a handle: every handle created and not yet
\* destroyed is held by a slot cleanup_slots can still reach.
C31_CountIsHeld ==
    /\ curl_session_count = Cardinality({s \in Pool : slots[s].curl # NULL})
    /\ \A h \in live : \E s \in Pool : slots[s].curl = h

\* C32: a call of fwrite_headers with a line that is neither a status line
\* nor a continuation line appends exactly one entry, the trimmed line, to
\* the strvec and leaves the entries before it as they were, also when the
\* line trims to the empty string (the bare CRLF that ends a header block).
C32_HeaderStartAppends ==
    [][/\ hdr_lines' # hdr_lines
       /\ HeaderLine(LineNow)
       => /\ ~hdr_bug'
          /\ values' = Append(values, Trimmed(LineNow))]_vars

\* The bare CRLF after a header: the strvec ends with an empty entry.
C32_Witness ==
    /\ Len(hdr_lines) = 3
    /\ StatusLine(hdr_lines[1])
    /\ HeaderLine(hdr_lines[2]) /\ Trimmed(hdr_lines[2]) # <<>>
    /\ hdr_lines[3] = <<CR, LF>>
    /\ values = <<Trimmed(hdr_lines[2]), <<>>>>

====
